---- MODULE Spec2Model ----
(***************************************************************************)
(* Subscription entitlement engine of EdufleetV2: the plan catalog, the    *)
(* subscription record embedded in one user document, the usage ledger,    *)
(* the entitlement checks and the change-request workflow.                 *)
(*                                                                         *)
(* Time is counted in whole days.  One user document is modelled; the      *)
(* requests collection holds that user's change requests.  An absent       *)
(* subscription (user.subscription undefined) is the record NoSub.         *)
(***************************************************************************)
EXTENDS Integers, Sequences, FiniteSets, TLC

\* ---------------------------------------------------------------- bounds
MaxTicks == 2
MaxUsed == 2
MaxRequests == 2
MaxItems == 2
MaxHistory == 3

\* ------------------------------------------------------ program constants
DefaultDelayHours == 168
DefaultDataDelayDays == 10
DefaultTeacherDelayDays == 15
BillingPeriodDays == 30
FreeBrowseRemaining == 10
FreeListingRemaining == 2

NoDate == -1
NoPlan == "none"
NoValue == 0

PlanIds == {"free", "pro"}
Roles == {"institute", "teacher"}
Durations == {10, 30}
CustomLimits == {NoValue, 2}
EndDates == {NoDate, 10, 50}
PaymentInputs == {"", "failed"}
RequestTypes == {"upgrade", "renewal"}
Decisions == {"approved", "rejected"}
Procs == {"a", "b"}
Viewers == {"self", "admin", "anonymous"}
CreatedAts == {0, 20}
DelayValues == {0, 20}
TickSteps == {20}

VARIABLES now, plans, role, subscription, requests, jobs, vehicles,
          response, inflight, application

vars == <<now, plans, role, subscription, requests, jobs, vehicles,
          response, inflight, application>>

\* ---------------------------------------------------------------- helpers
Max(a, b) == IF a >= b THEN a ELSE b

\* JavaScript a || b on numbers: 0 (and undefined, written NoValue) is falsy
JsOr(a, b) == IF a = 0 THEN b ELSE a

\* new Date(endDate || now): an undefined endDate reads as now
DateOr(d, n) == IF d = NoDate THEN n ELSE d

\* now > new Date(undefined) is false: an invalid date compares false
After(n, d) == d # NoDate /\ n > d

Resp(op, code, allowed, remaining, success) ==
    [op |-> op, code |-> code, allowed |-> allowed,
     remaining |-> remaining, success |-> success]

\* ------------------------------------------------------------ plan catalog
\* subscriptionPlanSchema: price min 0, duration min 1, maxListings min 0,
\* maxBrowsesPerMonth min 0; maxJobPosts carries no min validator
ValidPlan(p) ==
    /\ p.price >= 0
    /\ p.duration >= 1
    /\ p.maxListings >= 0
    /\ p.maxBrowsesPerMonth >= 0
    /\ p.planType \in {"teacher", "institute", "vendor"}

SeedCatalog ==
    [id \in PlanIds |->
       IF id = "free"
       THEN [price |-> 0, duration |-> 10, planType |-> "institute",
             isActive |-> TRUE, maxListings |-> 1, maxJobPosts |-> 1,
             maxBrowsesPerMonth |-> 1, dataDelayDays |-> 10,
             teacherDataDelayDays |-> 15, canAdvertiseVehicles |-> TRUE,
             instantVehicleAlerts |-> FALSE, instantJobAlerts |-> FALSE]
       ELSE [price |-> 100, duration |-> 30, planType |-> "institute",
             isActive |-> TRUE, maxListings |-> 2, maxJobPosts |-> -1,
             maxBrowsesPerMonth |-> 2, dataDelayDays |-> 0,
             teacherDataDelayDays |-> 0, canAdvertiseVehicles |-> TRUE,
             instantVehicleAlerts |-> TRUE, instantJobAlerts |-> TRUE]]

\* PUT /plans/:id : findByIdAndUpdate with runValidators, here an edit of one
\* of the three quota features
PlanFields == {"maxListings", "maxJobPosts", "maxBrowsesPerMonth"}

PlanLimitValues == {-1, 2}

updatePlan(id, field, value) ==
    LET edited == [plans[id] EXCEPT ![field] = value] IN
    /\ IF ValidPlan(edited)
       THEN /\ plans' = [plans EXCEPT ![id] = edited]
            /\ response' = [op |-> "updatePlan", code |-> 200,
                            allowed |-> FALSE, remaining |-> 0,
                            success |-> TRUE]
       ELSE /\ plans' = plans
            /\ response' = [op |-> "updatePlan", code |-> 400,
                            allowed |-> FALSE, remaining |-> 0,
                            success |-> FALSE]
    /\ UNCHANGED <<application, now, role, subscription, requests, jobs, vehicles,
                   inflight>>

\* POST /plans : new SubscriptionPlan(req.body).save(); the name is unique and
\* the schema validators run
NewPlanIds == {"custom"}

FeatureValues == {-2, -1, 2}

NewPlans ==
    {[SeedCatalog["pro"] EXCEPT !.maxListings = a, !.maxJobPosts = b,
                                !.maxBrowsesPerMonth = c] :
       a \in FeatureValues, b \in FeatureValues, c \in FeatureValues}

createPlan(id, p) ==
    /\ IF id \in DOMAIN plans \/ ~ValidPlan(p)
       THEN /\ plans' = plans
            /\ response' = [op |-> "createPlan", code |-> 400,
                            allowed |-> FALSE, remaining |-> 0,
                            success |-> FALSE]
       ELSE /\ plans' = [x \in DOMAIN plans \cup {id} |->
                           IF x = id THEN p ELSE plans[x]]
            /\ response' = [op |-> "createPlan", code |-> 201,
                            allowed |-> FALSE, remaining |-> 0,
                            success |-> TRUE]
    /\ UNCHANGED <<application, now, role, subscription, requests, jobs, vehicles,
                   inflight>>

\* PUT /plans/:id/toggle-status
togglePlanStatus(id) ==
    /\ plans' = [plans EXCEPT ![id].isActive = ~@]
    /\ response' = [op |-> "togglePlanStatus", code |-> 200,
                    allowed |-> FALSE, remaining |-> 0, success |-> TRUE]
    /\ UNCHANGED <<application, now, role, subscription, requests, jobs, vehicles,
                   inflight>>

\* ------------------------------------------------------ subscription record
NoSub ==
    [exists |-> FALSE, planId |-> NoPlan, status |-> "inactive",
     paymentStatus |-> "completed", startDate |-> NoDate, endDate |-> NoDate,
     listingsUsed |-> 0, listingsLimit |-> 0, jobPostsUsed |-> 0,
     jobPostsLimit |-> 0, browseCount |-> 0, browseCountLimit |-> 0,
     lastBrowseReset |-> NoDate]

HasSub(s) == s.exists

\* !user.subscription || !user.subscription.planId
NoPlanRef(s) == ~s.exists \/ s.planId = NoPlan

\* the populated plan document of a record
PlanOf(s) == plans[s.planId]

PaymentFor(plan) == IF plan.price > 0 THEN "pending" ELSE "completed"

\* planType chosen from the user's role for the default free plan
PlanTypeOf(r) ==
    IF r = "teacher" THEN "teacher"
    ELSE IF r = "supplier" \/ r = "vendor" THEN "vendor"
    ELSE "institute"

FreePlans(r) ==
    {id \in PlanIds : /\ plans[id].planType = PlanTypeOf(r)
                      /\ plans[id].price = 0
                      /\ plans[id].isActive}

\* the record written by the lazy default assignment
FreeRecord(id, n) ==
    [exists |-> TRUE, planId |-> id, status |-> "active",
     paymentStatus |-> "completed", startDate |-> n,
     endDate |-> n + plans[id].duration,
     listingsUsed |-> 0, listingsLimit |-> plans[id].maxListings,
     jobPostsUsed |-> 0, jobPostsLimit |-> plans[id].maxJobPosts,
     browseCount |-> 0, browseCountLimit |-> plans[id].maxBrowsesPerMonth,
     lastBrowseReset |-> n]

\* mutant: an assignment that carries the listing usage over
AssignedRecordKeepingUsage(id, duration, customListingsLimit, customBrowseLimit, n) ==
    [exists |-> TRUE, planId |-> id, status |-> "active",
     paymentStatus |-> PaymentFor(plans[id]), startDate |-> n,
     endDate |-> n + duration,
     listingsLimit |-> JsOr(customListingsLimit, plans[id].maxListings),
     listingsUsed |-> subscription.listingsUsed, jobPostsUsed |-> 0,
     jobPostsLimit |-> plans[id].maxJobPosts,
     browseCount |-> 0,
     browseCountLimit |-> JsOr(customBrowseLimit, plans[id].maxBrowsesPerMonth),
     lastBrowseReset |-> n]

\* the record written by assignSubscription
AssignedRecord(id, duration, customListingsLimit, customBrowseLimit, n) ==
    [exists |-> TRUE, planId |-> id, status |-> "active",
     paymentStatus |-> PaymentFor(plans[id]), startDate |-> n,
     endDate |-> n + duration,
     listingsLimit |-> JsOr(customListingsLimit, plans[id].maxListings),
     listingsUsed |-> 0, jobPostsUsed |-> 0,
     jobPostsLimit |-> plans[id].maxJobPosts,
     browseCount |-> 0,
     browseCountLimit |-> JsOr(customBrowseLimit, plans[id].maxBrowsesPerMonth),
     lastBrowseReset |-> n]

\* the field assignments of changePlan
ChangedPlanRecord(s, id, n) ==
    [s EXCEPT !.planId = id,
              !.status = "active",
              !.paymentStatus = PaymentFor(plans[id]),
              !.startDate = n,
              !.endDate = n + plans[id].duration,
              !.listingsLimit = plans[id].maxListings,
              !.jobPostsLimit = plans[id].maxJobPosts,
              !.browseCountLimit = plans[id].maxBrowsesPerMonth]

\* the field assignments of an approved request
ApprovedRecord(s, id, n) ==
    [s EXCEPT !.planId = id,
              !.listingsLimit = plans[id].maxListings,
              !.browseCountLimit = plans[id].maxBrowsesPerMonth,
              !.jobPostsLimit = plans[id].maxJobPosts,
              !.listingsUsed = 0,
              !.browseCount = 0,
              !.jobPostsUsed = 0,
              !.status = "active",
              !.paymentStatus = PaymentFor(plans[id]),
              !.startDate = n,
              !.endDate = n + plans[id].duration,
              !.lastBrowseReset = n]

\* mutant: the billing-period helper that never resets
BillingResetNever(s, n) == s

\* checkAndResetBillingPeriod: the record after the helper ran
BillingReset(s, n) ==
    IF ~s.exists \/ s.lastBrowseReset = NoDate THEN s
    ELSE IF n - s.lastBrowseReset >= BillingPeriodDays
         THEN [s EXCEPT !.browseCount = 0, !.lastBrowseReset = n]
         ELSE s

\* ------------------------------------------------------- job application
\* one application document: its status, whether interview details are
\* set, and the statuses pushed to statusHistory
allStatuses ==
    {"pending", "reviewed", "shortlisted", "interview_scheduled", "accepted",
     "rejected"}

\* the status field of a request body: absent, one of the six, or another
StatusInputs == allStatuses \cup {"", "hired"}

NewApplication ==
    [status |-> "pending", interviewScheduled |-> FALSE,
     statusHistory |-> <<>>]

\* mutant: the transition table without its one restriction
validateStatusTransitionRelaxed(currentStatus, newStatus) == newStatus \in allStatuses

validateStatusTransition(currentStatus, newStatus) ==
    IF newStatus \notin allStatuses THEN FALSE
    ELSE IF currentStatus = newStatus THEN TRUE
    ELSE ~(/\ currentStatus = "accepted"
           /\ newStatus \in {"pending", "reviewed", "shortlisted",
                              "interview_scheduled"})

\* the status block of updateApplicationStatus on the loaded document
StatusApplied(a, status) ==
    [a EXCEPT !.status = status,
              !.interviewScheduled = IF status = "rejected" THEN FALSE ELSE @,
              !.statusHistory = Append(@, status)]

\* the interview block of updateApplicationStatus on the loaded document
InterviewApplied(a) ==
    [a EXCEPT !.interviewScheduled = TRUE,
              !.status = "interview_scheduled",
              !.statusHistory = IF a.status # "interview_scheduled"
                                THEN Append(@, "interview_scheduled")
                                ELSE @]

\* ------------------------------------------------------------------- Init
IdleProc == [pc |-> "idle", found |-> FALSE, plan |-> NoPlan, type |-> ""]

Init ==
    /\ now = 0
    /\ plans = SeedCatalog
    /\ \A id \in PlanIds : ValidPlan(plans[id])
    /\ role \in Roles
    /\ subscription = NoSub
    /\ requests = <<>>
    /\ jobs = 0
    /\ vehicles = 0
    /\ response = Resp("none", 0, FALSE, 0, FALSE)
    /\ inflight = [p \in Procs |-> IdleProc]
    /\ application = NewApplication

\* the clock advances between requests
Tick ==
    /\ \E d \in TickSteps : /\ now + d <= MaxTicks * d
                           /\ now' = now + d
    /\ UNCHANGED <<application, plans, role, subscription, requests, jobs, vehicles,
                   response, inflight>>


\* ------------------------------------------------ subscription lifecycle
Done(op, code) == Resp(op, code, FALSE, 0, code < 400)

\* GET /user/:userId : lazy default assignment, then the subscription view
getUserSubscription ==
    /\ IF NoPlanRef(subscription) /\ FreePlans(role) # {}
       THEN \E id \in FreePlans(role) : subscription' = FreeRecord(id, now)
       ELSE subscription' = subscription
    /\ response' = Done("getUserSubscription", 200)
    /\ UNCHANGED <<application, now, plans, role, requests, jobs, vehicles, inflight>>

assignSubscription(id, duration, customListingsLimit, customBrowseLimit) ==
    /\ subscription' = AssignedRecord(id, duration, customListingsLimit,
                                      customBrowseLimit, now)
    /\ response' = Done("assignSubscription", 201)
    /\ UNCHANGED <<application, now, plans, role, requests, jobs, vehicles, inflight>>

\* mutant: an extension that also restarts the period
extendSubscriptionRestarting(newEndDate, paymentStatus) ==
    /\ IF ~HasSub(subscription)
       THEN /\ subscription' = subscription
            /\ response' = Done("extendSubscription", 404)
       ELSE /\ subscription' =
                 [subscription EXCEPT
                    !.endDate = IF newEndDate # NoDate THEN newEndDate ELSE @,
                    !.status = "active",
                    !.startDate = now,
                    !.paymentStatus = IF paymentStatus # "" THEN paymentStatus
                                      ELSE @]
            /\ response' = Done("extendSubscription", 200)
    /\ UNCHANGED <<application, now, plans, role, requests, jobs, vehicles, inflight>>

extendSubscription(newEndDate, paymentStatus) ==
    /\ IF ~HasSub(subscription)
       THEN /\ subscription' = subscription
            /\ response' = Done("extendSubscription", 404)
       ELSE /\ subscription' =
                 [subscription EXCEPT
                    !.endDate = IF newEndDate # NoDate THEN newEndDate ELSE @,
                    !.status = "active",
                    !.paymentStatus = IF paymentStatus # "" THEN paymentStatus
                                      ELSE @]
            /\ response' = Done("extendSubscription", 200)
    /\ UNCHANGED <<application, now, plans, role, requests, jobs, vehicles, inflight>>

changePlan(id) ==
    /\ IF ~HasSub(subscription)
       THEN /\ subscription' = subscription
            /\ response' = Done("changePlan", 404)
       ELSE /\ subscription' = ChangedPlanRecord(subscription, id, now)
            /\ response' = Done("changePlan", 200)
    /\ UNCHANGED <<application, now, plans, role, requests, jobs, vehicles, inflight>>

\* mutant: a reset that also restarts the period
resetBrowseCountRestarting ==
    /\ IF ~HasSub(subscription)
       THEN /\ subscription' = subscription
            /\ response' = Done("resetBrowseCount", 404)
       ELSE /\ subscription' = [subscription EXCEPT !.browseCount = 0,
                                                    !.lastBrowseReset = now,
                                                    !.startDate = now]
            /\ response' = Done("resetBrowseCount", 200)
    /\ UNCHANGED <<application, now, plans, role, requests, jobs, vehicles, inflight>>

resetBrowseCount ==
    /\ IF ~HasSub(subscription)
       THEN /\ subscription' = subscription
            /\ response' = Done("resetBrowseCount", 404)
       ELSE /\ subscription' = [subscription EXCEPT !.browseCount = 0,
                                                    !.lastBrowseReset = now]
            /\ response' = Done("resetBrowseCount", 200)
    /\ UNCHANGED <<application, now, plans, role, requests, jobs, vehicles, inflight>>

suspendSubscription ==
    /\ IF ~HasSub(subscription)
       THEN /\ subscription' = subscription
            /\ response' = Done("suspendSubscription", 404)
       ELSE /\ subscription' = [subscription EXCEPT !.status = "suspended"]
            /\ response' = Done("suspendSubscription", 200)
    /\ UNCHANGED <<application, now, plans, role, requests, jobs, vehicles, inflight>>

\* mutant: reactivation without the expiry test
reactivateSubscriptionUnchecked ==
    /\ IF ~HasSub(subscription)
       THEN /\ subscription' = subscription
            /\ response' = Done("reactivateSubscription", 404)
       ELSE /\ subscription' = [subscription EXCEPT !.status = "active"]
            /\ response' = Done("reactivateSubscription", 200)
    /\ UNCHANGED <<application, now, plans, role, requests, jobs, vehicles, inflight>>

\* mutant: reactivation that also re-stamps the start of the period
reactivateSubscriptionRestamping ==
    /\ IF ~HasSub(subscription)
       THEN /\ subscription' = subscription
            /\ response' = Done("reactivateSubscription", 404)
       ELSE IF After(now, subscription.endDate)
       THEN /\ subscription' = subscription
            /\ response' = Done("reactivateSubscription", 400)
       ELSE /\ subscription' = [subscription EXCEPT !.status = "active",
                                                    !.startDate = now]
            /\ response' = Done("reactivateSubscription", 200)
    /\ UNCHANGED <<application, now, plans, role, requests, jobs, vehicles, inflight>>

reactivateSubscription ==
    /\ IF ~HasSub(subscription)
       THEN /\ subscription' = subscription
            /\ response' = Done("reactivateSubscription", 404)
       ELSE IF After(now, subscription.endDate)
       THEN /\ subscription' = subscription
            /\ response' = Done("reactivateSubscription", 400)
       ELSE /\ subscription' = [subscription EXCEPT !.status = "active"]
            /\ response' = Done("reactivateSubscription", 200)
    /\ UNCHANGED <<application, now, plans, role, requests, jobs, vehicles, inflight>>

cancelSubscription ==
    /\ IF ~HasSub(subscription)
       THEN /\ subscription' = subscription
            /\ response' = Done("cancelSubscription", 404)
       ELSE /\ subscription' = NoSub
            /\ response' = Done("cancelSubscription", 200)
    /\ UNCHANGED <<application, now, plans, role, requests, jobs, vehicles, inflight>>

continueOwnSubscription(newEndDate) ==
    /\ IF ~HasSub(subscription)
       THEN /\ subscription' = subscription
            /\ response' = Done("continueOwnSubscription", 404)
       ELSE /\ subscription' = [subscription EXCEPT !.endDate = newEndDate,
                                                    !.status = "active"]
            /\ response' = Done("continueOwnSubscription", 200)
    /\ UNCHANGED <<application, now, plans, role, requests, jobs, vehicles, inflight>>

\* ------------------------------------------------------------ usage ledger
incrementBrowseCount ==
    LET s == BillingReset(subscription, now) IN
    /\ (HasSub(s) /\ s.status = "active") => s.browseCount < MaxUsed
    /\ IF ~HasSub(s) \/ s.status # "active"
       THEN /\ subscription' = s
            /\ response' = Resp("incrementBrowseCount", 200, FALSE, 0, FALSE)
       ELSE /\ subscription' = [s EXCEPT !.browseCount = @ + 1]
            /\ response' = Resp("incrementBrowseCount", 200, FALSE, 0, TRUE)
    /\ UNCHANGED <<application, now, plans, role, requests, jobs, vehicles, inflight>>

incrementListingCount ==
    /\ (HasSub(subscription) /\ subscription.status = "active")
          => subscription.listingsUsed < MaxUsed
    /\ IF ~HasSub(subscription) \/ subscription.status # "active"
       THEN /\ subscription' = subscription
            /\ response' = Resp("incrementListingCount", 200, FALSE, 0, FALSE)
       ELSE /\ subscription' = [subscription EXCEPT !.listingsUsed = @ + 1]
            /\ response' = Resp("incrementListingCount", 200, FALSE, 0, TRUE)
    /\ UNCHANGED <<application, now, plans, role, requests, jobs, vehicles, inflight>>

\* mutant: the decrement without its floor at 0
DecrementedListingsUnguarded(s) == [s EXCEPT !.listingsUsed = @ - 1]

\* mutant: the decrement that writes nothing
DecrementedListingsNoop(s) == s

DecrementedListings(s) ==
    IF s.listingsUsed > 0 THEN [s EXCEPT !.listingsUsed = @ - 1] ELSE s

decrementListingCount ==
    /\ IF ~HasSub(subscription)
       THEN /\ subscription' = subscription
            /\ response' = Resp("decrementListingCount", 200, FALSE, 0, FALSE)
       ELSE /\ subscription' = DecrementedListings(subscription)
            /\ response' = Resp("decrementListingCount", 200, FALSE, 0, TRUE)
    /\ UNCHANGED <<application, now, plans, role, requests, jobs, vehicles, inflight>>

incrementJobPostCount ==
    /\ (HasSub(subscription) /\ subscription.status = "active")
          => subscription.jobPostsUsed < MaxUsed
    /\ IF ~HasSub(subscription) \/ subscription.status # "active"
       THEN /\ subscription' = subscription
            /\ response' = Resp("incrementJobPostCount", 200, FALSE, 0, FALSE)
       ELSE /\ subscription' = [subscription EXCEPT !.jobPostsUsed = @ + 1]
            /\ response' = Resp("incrementJobPostCount", 200, FALSE, 0, TRUE)
    /\ UNCHANGED <<application, now, plans, role, requests, jobs, vehicles, inflight>>


\* The three increment handlers as the two awaited steps of one in-flight
\* call p: User.findById (with the billing-period helper for the browse
\* counter), then user.save(), which writes only the path the call modified.
Counters == {"listingsUsed", "browseCount", "jobPostsUsed"}

IncrementOp(c) ==
    IF c = "listingsUsed" THEN "incrementListingCount"
    ELSE IF c = "browseCount" THEN "incrementBrowseCount"
    ELSE "incrementJobPostCount"

incrementRead(p, c) ==
    LET doc == IF c = "browseCount" THEN BillingReset(subscription, now)
               ELSE subscription
    IN /\ inflight[p].pc = "idle"
       /\ subscription' = doc
       /\ inflight' = [inflight EXCEPT ![p] =
                         [pc |-> "read", counter |-> c, doc |-> doc]]
       /\ UNCHANGED <<application, now, plans, role, requests, jobs, vehicles, response>>

incrementWrite(p) ==
    /\ inflight[p].pc = "read"
    /\ LET c == inflight[p].counter
           doc == inflight[p].doc
       IN IF ~HasSub(doc) \/ doc.status # "active"
          THEN /\ subscription' = subscription
               /\ response' = Resp(IncrementOp(c), 200, FALSE, 0, FALSE)
          ELSE /\ doc[c] < MaxUsed
               /\ subscription' = [subscription EXCEPT ![c] = doc[c] + 1]
               /\ response' = Resp(IncrementOp(c), 200, FALSE, 0, TRUE)
    /\ inflight' = [inflight EXCEPT ![p] = IdleProc]
    /\ UNCHANGED <<application, now, plans, role, requests, jobs, vehicles>>

\* ----------------------------------------------------- entitlement checks
\* Each check is split into the record it stores (...Stored) and the
\* decision it returns (...Result), both computed from the record read.

\* mutant: a limit check that never finds the record expired
ExpiredNever(s, n) == FALSE

Expired(s, n) == n > DateOr(s.endDate, n)

Denied(op) == Resp(op, 200, FALSE, 0, TRUE)

\* the quota tail shared by the three limit checks: max is plan.features.X || 0
QuotaResult(op, max, used) ==
    LET remaining == Max(0, JsOr(max, 0) - JsOr(used, 0)) IN
    Resp(op, 200, ~(remaining <= 0), remaining, TRUE)

\* status and expiry part of a limit check: the stored record
ExpiryStored(s, n) ==
    IF NoPlanRef(s) THEN s
    ELSE IF s.status # "active" THEN s
    ELSE IF Expired(s, n) THEN [s EXCEPT !.status = "expired"]
    ELSE s

\* mutant: the browse check granting the default free plan before it answers
checkBrowseLimitStoredAssigning(s, n) ==
    IF NoPlanRef(s) /\ FreePlans(role) # {}
    THEN FreeRecord(CHOOSE id \in FreePlans(role) : TRUE, n)
    ELSE ExpiryStored(BillingReset(s, n), n)

checkBrowseLimitStored(s, n) == ExpiryStored(BillingReset(s, n), n)

checkBrowseLimitResult(s, n) ==
    LET r == BillingReset(s, n) IN
    IF NoPlanRef(r)
    THEN Resp("checkBrowseLimit", 200, TRUE, FreeBrowseRemaining, TRUE)
    ELSE IF r.status # "active" THEN Denied("checkBrowseLimit")
    ELSE IF Expired(r, n) THEN Denied("checkBrowseLimit")
    ELSE QuotaResult("checkBrowseLimit", PlanOf(r).maxBrowsesPerMonth,
                     r.browseCount)

checkListingLimitResult(s, n) ==
    IF NoPlanRef(s)
    THEN Resp("checkListingLimit", 200, FALSE, FreeListingRemaining, TRUE)
    ELSE IF s.status # "active" THEN Denied("checkListingLimit")
    ELSE IF Expired(s, n) THEN Denied("checkListingLimit")
    ELSE QuotaResult("checkListingLimit", PlanOf(s).maxListings,
                     s.listingsUsed)

checkJobPostLimitResult(s, n) ==
    IF NoPlanRef(s) THEN Denied("checkJobPostLimit")
    ELSE IF s.status # "active" THEN Denied("checkJobPostLimit")
    ELSE IF Expired(s, n) THEN Denied("checkJobPostLimit")
    ELSE QuotaResult("checkJobPostLimit", PlanOf(s).maxJobPosts,
                     s.jobPostsUsed)

checkBrowseLimit ==
    /\ subscription' = checkBrowseLimitStored(subscription, now)
    /\ response' = checkBrowseLimitResult(subscription, now)
    /\ UNCHANGED <<application, now, plans, role, requests, jobs, vehicles, inflight>>

checkListingLimit ==
    /\ subscription' = ExpiryStored(subscription, now)
    /\ response' = checkListingLimitResult(subscription, now)
    /\ UNCHANGED <<application, now, plans, role, requests, jobs, vehicles, inflight>>

checkJobPostLimit ==
    /\ subscription' = ExpiryStored(subscription, now)
    /\ response' = checkJobPostLimitResult(subscription, now)
    /\ UNCHANGED <<application, now, plans, role, requests, jobs, vehicles, inflight>>

LimitChecks == {"checkBrowseLimit", "checkListingLimit", "checkJobPostLimit"}

\* A limit check as the awaited steps of one in-flight call p: the user is
\* loaded (the browse check runs the billing-period helper first) and the
\* status and endDate of the loaded document are tested; a call that found
\* the document active and past its endDate then saves status = expired,
\* writing only that path.
checkLimitResult(op, s, n) ==
    IF op = "checkBrowseLimit" THEN checkBrowseLimitResult(s, n)
    ELSE IF op = "checkListingLimit" THEN checkListingLimitResult(s, n)
    ELSE checkJobPostLimitResult(s, n)

checkLimitRead(p, op) ==
    LET doc == IF op = "checkBrowseLimit" THEN BillingReset(subscription, now)
               ELSE subscription
    IN /\ inflight[p].pc = "idle"
       /\ subscription' = doc
       /\ IF ~NoPlanRef(doc) /\ doc.status = "active" /\ Expired(doc, now)
          THEN /\ inflight' = [inflight EXCEPT ![p] =
                                 [pc |-> "expiring", op |-> op]]
               /\ response' = response
          ELSE /\ inflight' = inflight
               /\ response' = checkLimitResult(op, doc, now)
       /\ UNCHANGED <<application, now, plans, role, requests, jobs, vehicles>>

checkLimitSave(p) ==
    /\ inflight[p].pc = "expiring"
    /\ subscription' = IF HasSub(subscription)
                       THEN [subscription EXCEPT !.status = "expired"]
                       ELSE subscription
    /\ inflight' = [inflight EXCEPT ![p] = IdleProc]
    /\ response' = Denied(inflight[p].op)
    /\ UNCHANGED <<application, now, plans, role, requests, jobs, vehicles>>

checkNotificationPermissionResult(s) ==
    IF ~HasSub(s) \/ s.status # "active"
    THEN Denied("checkNotificationPermission")
    ELSE Resp("checkNotificationPermission", 200,
              s.planId # NoPlan /\ (PlanOf(s).instantVehicleAlerts
                                    \/ PlanOf(s).instantJobAlerts),
              0, TRUE)

checkNotificationPermission ==
    /\ response' = checkNotificationPermissionResult(subscription)
    /\ UNCHANGED <<application, now, plans, role, subscription, requests, jobs, vehicles,
                   inflight>>

\* ------------------------------------------------ persona access checks
\* remaining <= 0 denies, otherwise allowed with the remaining quota
AccessResult(op, max, used) ==
    LET remaining == Max(0, max - JsOr(used, 0)) IN
    IF remaining <= 0 THEN Denied(op)
    ELSE Resp(op, 200, TRUE, remaining, TRUE)

\* plan.features.maxVehicleListings is not a field of the plan schema, so
\* the limit falls through to user.subscription.listingsLimit || 0
checkVehicleListingAccess(r, s) ==
    IF r # "institute" THEN Denied("checkVehicleListingAccess")
    ELSE IF ~HasSub(s) \/ s.status # "active"
    THEN Denied("checkVehicleListingAccess")
    ELSE AccessResult("checkVehicleListingAccess",
                      JsOr(s.listingsLimit, 0), s.listingsUsed)

checkJobPostAccess(r, s) ==
    IF r # "institute" THEN Denied("checkJobPostAccess")
    ELSE IF ~HasSub(s) \/ s.status # "active"
    THEN Denied("checkJobPostAccess")
    ELSE AccessResult("checkJobPostAccess",
                      JsOr(JsOr(IF s.planId = NoPlan THEN NoValue
                                ELSE PlanOf(s).maxJobPosts,
                                s.jobPostsLimit), 0),
                      s.jobPostsUsed)

\* mutant: the job-application check without its role test
checkJobApplicationAccessAnyRole(r, s) ==
    IF ~HasSub(s) \/ s.status # "active"
    THEN Denied("checkJobApplicationAccess")
    ELSE Resp("checkJobApplicationAccess", 200, TRUE, 5, TRUE)

\* plan.features.maxJobApplications and canAccessJobBoard are not fields of
\* the plan schema: the default 5 applies and the job board is accessible
checkJobApplicationAccess(r, s) ==
    IF r # "teacher" THEN Denied("checkJobApplicationAccess")
    ELSE IF ~HasSub(s) \/ s.status # "active"
    THEN Denied("checkJobApplicationAccess")
    ELSE Resp("checkJobApplicationAccess", 200, TRUE, 5, TRUE)

checkProductListingAccess(r, s) ==
    IF r # "vendor" THEN Denied("checkProductListingAccess")
    ELSE IF ~HasSub(s) \/ s.status # "active"
    THEN Denied("checkProductListingAccess")
    ELSE AccessResult("checkProductListingAccess",
                      JsOr(s.listingsLimit, 0), s.listingsUsed)

PersonaChecks ==
    {"checkVehicleListingAccess", "checkJobPostAccess",
     "checkJobApplicationAccess", "checkProductListingAccess"}

PersonaResult(op, r, s) ==
    IF op = "checkVehicleListingAccess" THEN checkVehicleListingAccess(r, s)
    ELSE IF op = "checkJobPostAccess" THEN checkJobPostAccess(r, s)
    ELSE IF op = "checkJobApplicationAccess"
    THEN checkJobApplicationAccess(r, s)
    ELSE checkProductListingAccess(r, s)

\* GET /api/access/... : the permission endpoints return the check's result
checkPersonaAccess(op) ==
    /\ response' = PersonaResult(op, role, subscription)
    /\ UNCHANGED <<application, now, plans, role, subscription, requests, jobs, vehicles,
                   inflight>>


\* ---------------------------------------------------- creation handlers
\* plan?.features?.maxJobPosts ?? 0 and user.subscription?.jobPostsUsed ?? 0
JobLimitReached(s) ==
    LET maxJobPosts == IF NoPlanRef(s) THEN 0 ELSE PlanOf(s).maxJobPosts
        jobPostsUsed == IF HasSub(s) THEN s.jobPostsUsed ELSE 0
    IN maxJobPosts # -1 /\ jobPostsUsed >= maxJobPosts

ListingLimitReached(s) ==
    LET maxListings == IF NoPlanRef(s) THEN 0 ELSE PlanOf(s).maxListings
        listingsUsed == IF HasSub(s) THEN s.listingsUsed ELSE 0
    IN maxListings # -1 /\ listingsUsed >= maxListings

\* POST /api/jobs behind protect, restrictTo('institute', 'admin')
createJob ==
    /\ IF role \notin {"institute", "admin"}
       THEN /\ response' = Done("createJob", 403)
            /\ UNCHANGED <<subscription, jobs>>
       ELSE IF role # "admin" /\ JobLimitReached(subscription)
       THEN /\ response' = Done("createJob", 403)
            /\ UNCHANGED <<subscription, jobs>>
       ELSE /\ jobs < MaxItems
            /\ HasSub(subscription) => subscription.jobPostsUsed < MaxUsed
            /\ jobs' = jobs + 1
            /\ subscription' =
                 IF HasSub(subscription)
                 THEN [subscription EXCEPT !.jobPostsUsed = @ + 1]
                 ELSE subscription
            /\ response' = Done("createJob", 201)
    /\ UNCHANGED <<application, now, plans, role, requests, vehicles, inflight>>

\* POST /api/vehicles behind authenticate, authorize('institute', 'admin')
createVehicle ==
    /\ IF role \notin {"institute", "admin"}
       THEN /\ response' = Done("createVehicle", 403)
            /\ UNCHANGED <<subscription, vehicles>>
       ELSE IF role # "admin" /\ ~NoPlanRef(subscription)
                              /\ ~PlanOf(subscription).canAdvertiseVehicles
       THEN /\ response' = Done("createVehicle", 403)
            /\ UNCHANGED <<subscription, vehicles>>
       ELSE IF role # "admin" /\ ListingLimitReached(subscription)
       THEN /\ response' = Done("createVehicle", 403)
            /\ UNCHANGED <<subscription, vehicles>>
       ELSE /\ vehicles < MaxItems
            /\ HasSub(subscription) => subscription.listingsUsed < MaxUsed
            /\ vehicles' = vehicles + 1
            /\ subscription' =
                 IF HasSub(subscription)
                 THEN [subscription EXCEPT !.listingsUsed = @ + 1]
                 ELSE subscription
            /\ response' = Done("createVehicle", 201)
    /\ UNCHANGED <<application, now, plans, role, requests, jobs, inflight>>

\* The creation handlers as the awaited steps of one in-flight call p of an
\* institute: the user document is loaded and the limit tested, the item is
\* created, then the counter of the loaded document is incremented and
\* saved (only the modified path is written).
createJobRead(p) ==
    /\ inflight[p].pc = "idle"
    /\ IF role \notin {"institute", "admin"}
          \/ (role # "admin" /\ JobLimitReached(subscription))
       THEN /\ inflight' = inflight
            /\ response' = Done("createJob", 403)
       ELSE /\ inflight' = [inflight EXCEPT ![p] =
                              [pc |-> "checked", op |-> "createJob",
                               doc |-> subscription]]
            /\ response' = response
    /\ UNCHANGED <<application, now, plans, role, subscription, requests, jobs, vehicles>>

createJobCreate(p) ==
    /\ inflight[p].pc = "checked"
    /\ inflight[p].op = "createJob"
    /\ jobs < MaxItems
    /\ jobs' = jobs + 1
    /\ inflight' = [inflight EXCEPT ![p].pc = "created"]
    /\ UNCHANGED <<application, now, plans, role, subscription, requests, vehicles,
                   response>>

createJobSave(p) ==
    /\ inflight[p].pc = "created"
    /\ inflight[p].op = "createJob"
    /\ subscription' =
         IF HasSub(inflight[p].doc) /\ HasSub(subscription)
         THEN [subscription EXCEPT
                 !.jobPostsUsed = inflight[p].doc.jobPostsUsed + 1]
         ELSE subscription
    /\ inflight' = [inflight EXCEPT ![p] = IdleProc]
    /\ response' = Done("createJob", 201)
    /\ UNCHANGED <<application, now, plans, role, requests, jobs, vehicles>>

createVehicleRead(p) ==
    /\ inflight[p].pc = "idle"
    /\ IF role \notin {"institute", "admin"}
          \/ (role # "admin" /\ ~NoPlanRef(subscription)
                             /\ ~PlanOf(subscription).canAdvertiseVehicles)
          \/ (role # "admin" /\ ListingLimitReached(subscription))
       THEN /\ inflight' = inflight
            /\ response' = Done("createVehicle", 403)
       ELSE /\ inflight' = [inflight EXCEPT ![p] =
                              [pc |-> "checked", op |-> "createVehicle",
                               doc |-> subscription]]
            /\ response' = response
    /\ UNCHANGED <<application, now, plans, role, subscription, requests, jobs, vehicles>>

createVehicleCreate(p) ==
    /\ inflight[p].pc = "checked"
    /\ inflight[p].op = "createVehicle"
    /\ vehicles < MaxItems
    /\ vehicles' = vehicles + 1
    /\ inflight' = [inflight EXCEPT ![p].pc = "created"]
    /\ UNCHANGED <<application, now, plans, role, subscription, requests, jobs, response>>

createVehicleSave(p) ==
    /\ inflight[p].pc = "created"
    /\ inflight[p].op = "createVehicle"
    /\ subscription' =
         IF HasSub(inflight[p].doc) /\ HasSub(subscription)
         THEN [subscription EXCEPT
                 !.listingsUsed = inflight[p].doc.listingsUsed + 1]
         ELSE subscription
    /\ inflight' = [inflight EXCEPT ![p] = IdleProc]
    /\ response' = Done("createVehicle", 201)
    /\ UNCHANGED <<application, now, plans, role, requests, jobs, vehicles>>

\* ------------------------------------------------------- visibility delay
\* The viewer of a request: the modelled user, an admin account that holds
\* no subscription, or nobody (optionalAuth without a token).
ViewerRole(v) == IF v = "admin" THEN "admin" ELSE role

ViewerSub(v) == IF v = "self" THEN subscription ELSE NoSub

\* getDataDelayDate as the number of days it subtracts; 0 stands for null
getDataDelayDays(v) ==
    IF v = "anonymous" \/ ViewerRole(v) = "admin" THEN 0
    ELSE IF NoPlanRef(ViewerSub(v)) THEN DefaultDataDelayDays
    ELSE PlanOf(ViewerSub(v)).dataDelayDays

getTeacherDataDelayDays(v) ==
    IF v = "anonymous" \/ ViewerRole(v) = "admin" THEN 0
    ELSE IF NoPlanRef(ViewerSub(v)) THEN DefaultTeacherDelayDays
    ELSE PlanOf(ViewerSub(v)).teacherDataDelayDays

\* item.createdAt <= delayDate, or no delayDate at all
PastDelay(createdAt, days) == days = 0 \/ createdAt <= now - days

\* the delayHours checkListingVisibility answers with
ListingDelayHours(s) ==
    IF NoPlanRef(s) THEN DefaultDelayHours
    ELSE IF s.status # "active" THEN DefaultDelayHours
    ELSE IF PlanOf(s).dataDelayDays # 0 THEN PlanOf(s).dataDelayDays * 24
    ELSE 0

ListingVisible(s, createdAt) ==
    IF ~NoPlanRef(s) /\ s.status # "active" THEN FALSE
    ELSE now * 24 >= createdAt * 24 + ListingDelayHours(s)

\* POST /check/listing-visibility with the viewer's userId; owner says
\* whether the listing looked at is the viewer's own
checkListingVisibility(v, createdAt, owner) ==
    /\ v # "anonymous"
    /\ createdAt <= now
    /\ owner => (v = "self" /\ vehicles > 0)
    /\ response' = Resp("checkListingVisibility", 200,
                        ListingVisible(ViewerSub(v), createdAt),
                        ListingDelayHours(ViewerSub(v)), TRUE)
    /\ UNCHANGED <<application, now, plans, role, subscription, requests, jobs, vehicles,
                   inflight>>

\* GET /api/jobs/:id for a job created at createdAt
getJobById(v, createdAt, owner) ==
    /\ createdAt <= now
    /\ owner => (v = "self" /\ jobs > 0)
    /\ IF v # "anonymous" /\ (ViewerRole(v) = "admin" \/ owner)
       THEN response' = Resp("getJobById", 200, TRUE, 0, TRUE)
       ELSE IF PastDelay(createdAt, getDataDelayDays(v))
       THEN response' = Resp("getJobById", 200, TRUE,
                             getDataDelayDays(v), TRUE)
       ELSE response' = Resp("getJobById", 403, FALSE,
                             getDataDelayDays(v), FALSE)
    /\ UNCHANGED <<application, now, plans, role, subscription, requests, jobs, vehicles,
                   inflight>>

\* GET /api/jobs : whether a job created at createdAt is in the list
getAllJobs(v, createdAt, owner) ==
    /\ createdAt <= now
    /\ owner => (v = "self" /\ jobs > 0)
    /\ response' = Resp("getAllJobs", 200,
                        PastDelay(createdAt, getDataDelayDays(v)),
                        getDataDelayDays(v), TRUE)
    /\ UNCHANGED <<application, now, plans, role, subscription, requests, jobs, vehicles,
                   inflight>>

\* GET /api/users?role=teacher : whether a teacher created at createdAt is
\* in the search result
getUsers(v, createdAt) ==
    /\ createdAt <= now
    /\ response' = Resp("getUsers", 200,
                        PastDelay(createdAt, getTeacherDataDelayDays(v)),
                        getTeacherDataDelayDays(v), TRUE)
    /\ UNCHANGED <<application, now, plans, role, subscription, requests, jobs, vehicles,
                   inflight>>

\* ------------------------------------------------ change-request workflow
NewRequest(id, type) ==
    [requestedPlanId |-> id, requestType |-> type, status |-> "pending",
     adminNotes |-> ""]

\* mutant: the duplicate query filtering on the wrong status
ExistingApproved(rs) == \E i \in 1..Len(rs) : rs[i].status = "approved"

\* SubscriptionRequest.findOne({ userId, status: 'pending' })
ExistingPending(rs) == \E i \in 1..Len(rs) : rs[i].status = "pending"

PendingCount(rs) == Cardinality({i \in 1..Len(rs) : rs[i].status = "pending"})

\* the handler run without another request in between
createSubscriptionRequest(id, type) ==
    /\ IF ExistingPending(requests)
       THEN /\ requests' = requests
            /\ response' = Done("createSubscriptionRequest", 400)
       ELSE /\ Len(requests) < MaxRequests
            /\ requests' = Append(requests, NewRequest(id, type))
            /\ response' = Done("createSubscriptionRequest", 201)
    /\ UNCHANGED <<application, now, plans, role, subscription, jobs, vehicles, inflight>>

\* the same handler as two awaited steps of one in-flight call p:
\* the findOne for a pending request, then request.save()
createRequestFind(p, id, type) ==
    /\ inflight[p].pc = "idle"
    /\ inflight' = [inflight EXCEPT ![p] =
                      [pc |-> "found", found |-> ExistingPending(requests),
                       plan |-> id, type |-> type]]
    /\ UNCHANGED <<application, now, plans, role, subscription, requests, jobs, vehicles,
                   response>>

createRequestSave(p) ==
    /\ inflight[p].pc = "found"
    /\ IF inflight[p].found
       THEN /\ requests' = requests
            /\ response' = Done("createSubscriptionRequest", 400)
       ELSE /\ Len(requests) < MaxRequests
            /\ requests' = Append(requests, NewRequest(inflight[p].plan,
                                                       inflight[p].type))
            /\ response' = Done("createSubscriptionRequest", 201)
    /\ inflight' = [inflight EXCEPT ![p] = IdleProc]
    /\ UNCHANGED <<application, now, plans, role, subscription, jobs, vehicles>>

\* mutant: no request counts as processed
NeverProcessed(r) == FALSE

\* request.status !== 'pending'
AlreadyProcessed(r) == r.status # "pending"

\* mutant: the plan is applied whatever the decision
AppliesPlanAnyDecision(status, s) == HasSub(s)

\* status === 'approved' with a user whose subscription is set
AppliesPlan(status, s) == status = "approved" /\ HasSub(s)

updateSubscriptionRequest(i, status, adminNotes) ==
    /\ i \in 1..Len(requests)
    /\ IF AlreadyProcessed(requests[i])
       THEN /\ UNCHANGED <<requests, subscription>>
            /\ response' = Done("updateSubscriptionRequest", 400)
       ELSE /\ requests' = [requests EXCEPT ![i].status = status,
                                            ![i].adminNotes = adminNotes]
            /\ subscription' =
                 IF AppliesPlan(status, subscription)
                 THEN ApprovedRecord(subscription,
                                     requests[i].requestedPlanId, now)
                 ELSE subscription
            /\ response' = Done("updateSubscriptionRequest", 200)
    /\ UNCHANGED <<application, now, plans, role, jobs, vehicles, inflight>>

\* updateSubscriptionRequest as the awaited steps of one admin call p:
\* SubscriptionRequest.findById with the pending test, then (for an
\* approval) User.findById, the plan assignments and user.save(), then
\* request.save(), which writes status and adminNotes whatever is stored.
\* A call that answered stays at "done" with what it did.
updateRequestFind(p, i, status) ==
    /\ inflight[p].pc = "idle"
    /\ i \in 1..Len(requests)
    /\ IF AlreadyProcessed(requests[i])
       THEN /\ inflight' = inflight
            /\ response' = Done("updateSubscriptionRequest", 400)
       ELSE /\ inflight' = [inflight EXCEPT ![p] =
                              [pc |-> "decided", req |-> i, status |-> status,
                               applied |-> FALSE]]
            /\ response' = response
    /\ UNCHANGED <<application, now, plans, role, subscription, requests, jobs, vehicles>>

updateRequestSaveUser(p) ==
    /\ inflight[p].pc = "decided"
    /\ inflight[p].status = "approved"
    /\ subscription' =
         IF AppliesPlan(inflight[p].status, subscription)
         THEN ApprovedRecord(subscription,
                             requests[inflight[p].req].requestedPlanId, now)
         ELSE subscription
    /\ inflight' = [inflight EXCEPT ![p].pc = "userSaved",
                                    ![p].applied =
                                       AppliesPlan(inflight[p].status,
                                                   subscription)]
    /\ UNCHANGED <<application, now, plans, role, requests, jobs, vehicles, response>>

updateRequestSave(p) ==
    /\ \/ inflight[p].pc = "userSaved"
       \/ inflight[p].pc = "decided" /\ inflight[p].status # "approved"
    /\ requests' = [requests EXCEPT ![inflight[p].req].status =
                                       inflight[p].status,
                                    ![inflight[p].req].adminNotes = "ok"]
    /\ inflight' = [inflight EXCEPT ![p].pc = "done"]
    /\ response' = Done("updateSubscriptionRequest", 200)
    /\ UNCHANGED <<application, now, plans, role, subscription, jobs, vehicles>>

\* ------------------------------------------- job application handlers
\* PUT /applications/:id/status by the institute that owns the application
updateApplicationStatus(status, interviewScheduled) ==
    LET changes == status # "" /\ status # application.status
        a1 == IF changes THEN StatusApplied(application, status)
              ELSE application
        a2 == IF interviewScheduled THEN InterviewApplied(a1) ELSE a1
    IN /\ IF changes /\ ~validateStatusTransition(application.status, status)
          THEN /\ application' = application
               /\ response' = Done("updateApplicationStatus", 400)
          ELSE IF interviewScheduled /\ a1.status \in {"rejected", "accepted"}
          THEN /\ application' = application
               /\ response' = Done("updateApplicationStatus", 400)
          ELSE /\ Len(a2.statusHistory) <= MaxHistory
               /\ application' = a2
               /\ response' = Done("updateApplicationStatus", 200)
       /\ UNCHANGED <<now, plans, role, subscription, requests, jobs,
                      vehicles, inflight>>

\* PUT /applications/:id/reschedule
rescheduleInterview(interviewScheduled) ==
    /\ IF ~interviewScheduled
       THEN /\ application' = application
            /\ response' = Done("rescheduleInterview", 400)
       ELSE IF application.status # "interview_scheduled"
               \/ ~application.interviewScheduled
       THEN /\ application' = application
            /\ response' = Done("rescheduleInterview", 400)
       ELSE /\ Len(application.statusHistory) < MaxHistory
            /\ application' =
                 [application EXCEPT
                    !.interviewScheduled = TRUE,
                    !.statusHistory = Append(@, "interview_rescheduled")]
            /\ response' = Done("rescheduleInterview", 200)
    /\ UNCHANGED <<now, plans, role, subscription, requests, jobs, vehicles,
                   inflight>>

\* ---------------------------------------------------------- specifications
\* Usage ledger with the plan-changing operations, one institute user
NextLedger ==
    \/ Tick
    \/ getUserSubscription
    \/ \E id \in PlanIds : assignSubscription(id, plans[id].duration,
                                              NoValue, NoValue)
    \/ \E id \in PlanIds : changePlan(id)
    \/ resetBrowseCount
    \/ incrementBrowseCount
    \/ incrementListingCount
    \/ decrementListingCount
    \/ incrementJobPostCount
    \/ createSubscriptionRequest("pro", "upgrade")
    \/ \E i \in 1..MaxRequests, d \in Decisions :
          updateSubscriptionRequest(i, d, "ok")

InitLedger == Init /\ role = "institute"

SpecLedger == InitLedger /\ [][NextLedger]_vars

\* Entitlement decisions and the gated creation handlers
NextChecks ==
    \/ Tick
    \/ getUserSubscription
    \/ \E id \in PlanIds, cl \in CustomLimits :
          assignSubscription(id, plans[id].duration, cl, NoValue)
    \/ suspendSubscription
    \/ incrementBrowseCount
    \/ checkBrowseLimit
    \/ checkListingLimit
    \/ checkJobPostLimit
    \/ checkNotificationPermission
    \/ \E op \in PersonaChecks : checkPersonaAccess(op)
    \/ createJob
    \/ createVehicle

SpecChecks == Init /\ [][NextChecks]_vars


\* Expiry and renewal: the operations that read or write status and endDate
NextExpiry ==
    \/ Tick
    \/ getUserSubscription
    \/ \E id \in PlanIds : assignSubscription(id, plans[id].duration,
                                              NoValue, NoValue)
    \/ \E e \in EndDates : extendSubscription(e, "")
    \/ \E id \in PlanIds : changePlan(id)
    \/ resetBrowseCount
    \/ suspendSubscription
    \/ reactivateSubscription
    \/ cancelSubscription
    \/ \E e \in EndDates : continueOwnSubscription(e)
    \/ checkBrowseLimit
    \/ checkListingLimit
    \/ checkJobPostLimit
    \/ incrementBrowseCount
    \/ incrementListingCount
    \/ decrementListingCount
    \/ createSubscriptionRequest("pro", "renewal")
    \/ \E i \in 1..MaxRequests : updateSubscriptionRequest(i, "approved", "ok")

SpecExpiry == InitLedger /\ [][NextExpiry]_vars

\* The request workflow, each handler run to completion
NextWorkflow ==
    \/ getUserSubscription
    \/ cancelSubscription
    \/ incrementListingCount
    \/ \E id \in PlanIds, t \in RequestTypes : createSubscriptionRequest(id, t)
    \/ \E i \in 1..MaxRequests, d \in Decisions :
          updateSubscriptionRequest(i, d, "ok")
    \/ \E i \in 1..MaxRequests, d \in Decisions :
          updateSubscriptionRequest(i, d, "again")

SpecWorkflow == InitLedger /\ [][NextWorkflow]_vars

\* The request workflow with createSubscriptionRequest calls of the same
\* user interleaving at their awaits
NextRace ==
    \/ \E p \in Procs, id \in PlanIds, t \in RequestTypes :
          createRequestFind(p, id, t)
    \/ \E p \in Procs : createRequestSave(p)
    \/ \E i \in 1..MaxRequests, d \in Decisions :
          updateSubscriptionRequest(i, d, "ok")

SpecRace == InitLedger /\ [][NextRace]_vars

\* The usage ledger with increment calls of the same user interleaving at
\* their awaits
NextCounters ==
    \/ getUserSubscription
    \/ suspendSubscription
    \/ \E p \in Procs, c \in Counters : incrementRead(p, c)
    \/ \E p \in Procs : incrementWrite(p)

SpecCounters == InitLedger /\ [][NextCounters]_vars

\* Plan edits by the admin against the limit checks of a subscribed user
NextSnapshot ==
    \/ getUserSubscription
    \/ \E id \in PlanIds : assignSubscription(id, plans[id].duration,
                                              NoValue, NoValue)
    \/ \E id \in PlanIds, f \in PlanFields, v \in PlanLimitValues :
          updatePlan(id, f, v)
    \/ incrementBrowseCount
    \/ incrementListingCount
    \/ checkBrowseLimit
    \/ checkListingLimit
    \/ checkJobPostLimit

SpecSnapshot == InitLedger /\ [][NextSnapshot]_vars

\* The usage ledger against a record that is suspended or expires
NextMeter ==
    \/ Tick
    \/ getUserSubscription
    \/ suspendSubscription
    \/ checkBrowseLimit
    \/ incrementBrowseCount
    \/ incrementListingCount
    \/ incrementJobPostCount
    \/ decrementListingCount

SpecMeter == InitLedger /\ [][NextMeter]_vars

\* The admin surface on one record: assignment with every input, extension
\* with every input, the browse reset
NextAdmin ==
    \/ Tick
    \/ getUserSubscription
    \/ \E id \in PlanIds, d \in Durations, cl \in CustomLimits,
          cb \in CustomLimits : assignSubscription(id, d, cl, cb)
    \/ \E e \in EndDates, ps \in PaymentInputs : extendSubscription(e, ps)
    \/ resetBrowseCount
    \/ suspendSubscription
    \/ incrementBrowseCount
    \/ incrementListingCount

SpecAdmin == InitLedger /\ [][NextAdmin]_vars

\* The plan catalog under the admin's create, update and toggle calls
NextCatalog ==
    \/ \E id \in NewPlanIds, p \in NewPlans : createPlan(id, p)
    \/ \E id \in DOMAIN plans, f \in PlanFields, v \in FeatureValues :
          updatePlan(id, f, v)
    \/ \E id \in DOMAIN plans : togglePlanStatus(id)
    \/ getUserSubscription

SpecCatalog == InitLedger /\ [][NextCatalog]_vars

\* Visibility decisions for the user, an admin and an anonymous viewer
NextVisibility ==
    \/ Tick
    \/ getUserSubscription
    \/ \E id \in PlanIds : assignSubscription(id, plans[id].duration,
                                              NoValue, NoValue)
    \/ suspendSubscription
    \/ \E id \in PlanIds, d \in DelayValues :
          updatePlan(id, "dataDelayDays", d)
    \/ createJob
    \/ createVehicle
    \/ \E v \in Viewers, c \in CreatedAts, o \in BOOLEAN :
          checkListingVisibility(v, c, o)
    \/ \E v \in Viewers, c \in CreatedAts, o \in BOOLEAN : getJobById(v, c, o)
    \/ \E v \in Viewers, c \in CreatedAts, o \in BOOLEAN : getAllJobs(v, c, o)
    \/ \E v \in Viewers, c \in CreatedAts : getUsers(v, c)

SpecVisibility == InitLedger /\ [][NextVisibility]_vars

\* Request decisions of two admin calls interleaving at their awaits
NextDecide ==
    \/ getUserSubscription
    \/ incrementListingCount
    \/ \E id \in PlanIds : createSubscriptionRequest(id, "upgrade")
    \/ \E p \in Procs, i \in 1..MaxRequests, d \in Decisions :
          updateRequestFind(p, i, d)
    \/ \E p \in Procs : updateRequestSaveUser(p)
    \/ \E p \in Procs : updateRequestSave(p)

SpecDecide == InitLedger /\ [][NextDecide]_vars

\* Creation calls of one institute interleaving at their awaits
NextQuota ==
    \/ getUserSubscription
    \/ \E p \in Procs : createJobRead(p)
    \/ \E p \in Procs : createJobCreate(p)
    \/ \E p \in Procs : createJobSave(p)
    \/ \E p \in Procs : createVehicleRead(p)
    \/ \E p \in Procs : createVehicleCreate(p)
    \/ \E p \in Procs : createVehicleSave(p)

SpecQuota == InitLedger /\ [][NextQuota]_vars

\* Limit checks in flight while the record is extended or continued
NextLapse ==
    \/ Tick
    \/ getUserSubscription
    \/ \E e \in EndDates : extendSubscription(e, "")
    \/ \E e \in EndDates : continueOwnSubscription(e)
    \/ incrementListingCount
    \/ \E p \in Procs, op \in LimitChecks : checkLimitRead(p, op)
    \/ \E p \in Procs : checkLimitSave(p)

SpecLapse == InitLedger /\ [][NextLapse]_vars

\* The status machine of one job application
NextApplications ==
    \/ \E st \in StatusInputs, iv \in BOOLEAN : updateApplicationStatus(st, iv)
    \/ \E iv \in BOOLEAN : rescheduleInterview(iv)

SpecApplications == InitLedger /\ [][NextApplications]_vars

\* ------------------------------------------------------------------ claims
CreationOps == {"createJob", "createVehicle"}

\* C1: in every reachable state of the ledger, listingsUsed, jobPostsUsed
\* and browseCount are each >= 0, also when decrementListingCount runs first
\* on a counter that is 0.
C1_CountersNonNegative ==
    /\ subscription.listingsUsed >= 0
    /\ subscription.jobPostsUsed >= 0
    /\ subscription.browseCount >= 0

\* decrementListingCount answered success on a record whose counter is 0
C1_Witness ==
    /\ HasSub(subscription)
    /\ response.op = "decrementListingCount"
    /\ response.success
    /\ subscription.listingsUsed = 0

\* the limit and the usage counter a limit check is about
LimitOf(op, s) ==
    IF op = "checkBrowseLimit" THEN PlanOf(s).maxBrowsesPerMonth
    ELSE IF op = "checkListingLimit" THEN PlanOf(s).maxListings
    ELSE PlanOf(s).maxJobPosts

UsedOf(op, s) ==
    IF op = "checkBrowseLimit" THEN s.browseCount
    ELSE IF op = "checkListingLimit" THEN s.listingsUsed
    ELSE s.jobPostsUsed

\* C2: after a limit check on an active, unexpired record the response has
\* remaining = max(0, limit - used) and allowed <=> remaining > 0, except
\* that a limit of -1 (unlimited) is always allowed.
C2_LimitCheckContract ==
    (/\ response.op \in LimitChecks
     /\ HasSub(subscription)
     /\ subscription.status = "active"
     /\ ~Expired(subscription, now))
    => LET limit == LimitOf(response.op, subscription)
           used == UsedOf(response.op, subscription)
       IN IF limit = -1 THEN response.allowed
          ELSE /\ response.remaining = Max(0, limit - used)
               /\ response.allowed <=> response.remaining > 0

\* C3: while the status is suspended every gated action is denied: the limit
\* checks and the persona checks answer allowed = false, and createJob and
\* createVehicle create nothing.
C3_SuspendedBlocksAll ==
    (HasSub(subscription) /\ subscription.status = "suspended")
    => /\ response.op \in LimitChecks \cup PersonaChecks => ~response.allowed
       /\ response.op \in CreationOps => response.code # 201

DecisionOps ==
    LimitChecks \cup PersonaChecks \cup CreationOps
    \cup {"checkNotificationPermission"}

IsDenial(r) == IF r.op \in CreationOps THEN r.code = 403 ELSE ~r.allowed

\* C4: every decision operation that runs on a record that is active with
\* endDate before now stores status = expired and answers with a denial.
C4_ExpiryBeforeDecision ==
    [][(/\ HasSub(subscription)
        /\ subscription.status = "active"
        /\ subscription.endDate # NoDate
        /\ now > subscription.endDate
        /\ now' = now
        /\ response'.op \in DecisionOps)
       => /\ subscription'.status = "expired"
          /\ IsDenial(response')]_vars

\* C8: after a successful changePlan to plan P the three usage counters are
\* 0, the limits are P's, status is active, startDate = now, endDate = now +
\* P.duration and paymentStatus follows P.price.
C8_ChangePlanResets ==
    (response.op = "changePlan" /\ response.code = 200)
    => LET P == PlanOf(subscription) IN
       /\ subscription.listingsUsed = 0
       /\ subscription.jobPostsUsed = 0
       /\ subscription.browseCount = 0
       /\ subscription.listingsLimit = P.maxListings
       /\ subscription.jobPostsLimit = P.maxJobPosts
       /\ subscription.browseCountLimit = P.maxBrowsesPerMonth
       /\ subscription.status = "active"
       /\ subscription.startDate = now
       /\ subscription.endDate = now + P.duration
       /\ subscription.paymentStatus = PaymentFor(P)

\* C9: when a pending request for plan P becomes approved, the requester's
\* record afterwards has the three counters 0, P's limits, planId = P and
\* status active.
C9_ApprovalApplies ==
    [][\A i \in 1..Len(requests) :
         (/\ Len(requests') = Len(requests)
          /\ requests[i].status = "pending"
          /\ requests'[i].status = "approved")
         => LET id == requests[i].requestedPlanId IN
            /\ HasSub(subscription')
            /\ subscription'.planId = id
            /\ subscription'.status = "active"
            /\ subscription'.listingsUsed = 0
            /\ subscription'.jobPostsUsed = 0
            /\ subscription'.browseCount = 0
            /\ subscription'.listingsLimit = plans[id].maxListings
            /\ subscription'.jobPostsLimit = plans[id].maxJobPosts
            /\ subscription'.browseCountLimit = plans[id].maxBrowsesPerMonth]_vars

\* the fields on which approval and changePlan are compared (all but notes)
SameOutcome(a, b) ==
    /\ a.planId = b.planId
    /\ a.status = b.status
    /\ a.paymentStatus = b.paymentStatus
    /\ a.startDate = b.startDate
    /\ a.endDate = b.endDate
    /\ a.listingsUsed = b.listingsUsed
    /\ a.jobPostsUsed = b.jobPostsUsed
    /\ a.browseCount = b.browseCount
    /\ a.listingsLimit = b.listingsLimit
    /\ a.jobPostsLimit = b.jobPostsLimit
    /\ a.browseCountLimit = b.browseCountLimit
    /\ a.lastBrowseReset = b.lastBrowseReset

\* C10: from the same record at the same time, approving a request for plan
\* P and an admin changePlan(P) produce records that agree on every field
\* but the notes.
C10_ApprovalEqualsChangePlan ==
    HasSub(subscription)
    => \A id \in PlanIds :
         SameOutcome(ApprovedRecord(subscription, id, now),
                     ChangedPlanRecord(subscription, id, now))


Renewers ==
    {"extendSubscription", "assignSubscription", "changePlan",
     "updateSubscriptionRequest", "continueOwnSubscription"}

Lapsed(s, n) ==
    /\ HasSub(s)
    /\ s.status \in {"expired", "suspended"}
    /\ s.endDate # NoDate
    /\ n > s.endDate

C6_AtMostOnePending == PendingCount(requests) <= 1

\* C7: a createSubscriptionRequest call made while a request is pending
\* fails with an error and stores nothing, whatever plan and type it asks for.
C7_DuplicateRejected ==
    [][(/\ PendingCount(requests) > 0
        /\ response'.op = "createSubscriptionRequest")
       => /\ requests' = requests
          /\ response'.code = 400]_vars

\* a second request was refused while the first one is still pending
C7_Witness ==
    /\ response.op = "createSubscriptionRequest"
    /\ response.code = 400
    /\ PendingCount(requests) = 1

\* the requests whose status is approved or rejected
Terminal(r) == r.status \in {"approved", "rejected"}

\* C11: a request whose status is approved or rejected is never changed
\* again: an updateSubscriptionRequest call on it answers 400 and leaves the
\* request (status and adminNotes) and the subscription record as they were,
\* and a request only ever moves from pending to approved or to rejected.
C11_TerminalRequests ==
    [][\A i \in 1..Len(requests) :
         /\ Terminal(requests[i])
              => /\ Len(requests') >= i
                 /\ requests'[i] = requests[i]
                 /\ \A d \in Decisions, n \in {"ok", "again"} :
                      updateSubscriptionRequest(i, d, n)
                        => /\ response'.code = 400
                           /\ subscription' = subscription
                           /\ requests' = requests
         /\ (Len(requests') >= i /\ requests'[i].status # requests[i].status)
              => /\ requests[i].status = "pending"
                 /\ Terminal(requests'[i])]_vars

\* an update was refused on a processed request whose notes are the first ones
C11_Witness ==
    /\ response.op = "updateSubscriptionRequest"
    /\ response.code = 400
    /\ \E i \in 1..Len(requests) :
         Terminal(requests[i]) /\ requests[i].adminNotes = "ok"

\* C12: a step that moves a pending request to rejected leaves the
\* subscription record and every other request unchanged; of the rejected
\* request only status and adminNotes change.
C12_RejectionFrame ==
    [][\A i \in 1..Len(requests) :
         (/\ Len(requests') = Len(requests)
          /\ requests[i].status = "pending"
          /\ requests'[i].status = "rejected")
         => /\ subscription' = subscription
            /\ \A j \in 1..Len(requests) : j # i => requests'[j] = requests[j]
            /\ requests'[i] = [requests[i] EXCEPT
                                 !.status = "rejected",
                                 !.adminNotes = requests'[i].adminNotes]]_vars

\* a request was rejected while the requester holds a used subscription
C12_Witness ==
    /\ response.op = "updateSubscriptionRequest"
    /\ response.code = 200
    /\ HasSub(subscription)
    /\ subscription.listingsUsed > 0
    /\ \E i \in 1..Len(requests) : requests[i].status = "rejected"

\* C13: every increment call that reports success leaves its counter exactly
\* one higher than the stored value it found at its write, so two interleaved
\* successful calls raise the counter by 2.
C13_NoLostUpdate ==
    [][\A p \in Procs :
         (/\ inflight[p].pc = "read"
          /\ inflight'[p].pc = "idle"
          /\ response'.success)
         => subscription'[inflight[p].counter]
              = subscription[inflight[p].counter] + 1]_vars

\* C14: an updatePlan edit of a plan's quota features leaves the answers of
\* checkListingLimit, checkJobPostLimit and checkBrowseLimit for an already
\* subscribed user as they were before the edit (allowed and remaining).
C14_FrozenLimits ==
    [][(/\ plans' # plans
        /\ HasSub(subscription)
        /\ subscription' = subscription)
       => /\ checkListingLimitResult(subscription, now)'
               = checkListingLimitResult(subscription, now)
          /\ checkJobPostLimitResult(subscription, now)'
               = checkJobPostLimitResult(subscription, now)
          /\ checkBrowseLimitResult(subscription, now)'
               = checkBrowseLimitResult(subscription, now)]_vars

LedgerOps ==
    {"incrementBrowseCount", "incrementListingCount",
     "incrementJobPostCount", "decrementListingCount"}

\* C15: an increment or decrement call on a record whose status is inactive,
\* suspended or expired leaves every field of the record unchanged and
\* answers 200 with success = false.
C15_LedgerOnlyWhenActive ==
    [][(/\ HasSub(subscription)
        /\ subscription.status \in {"inactive", "suspended", "expired"}
        /\ now' = now
        /\ response'.op \in LedgerOps)
       => /\ subscription' = subscription
          /\ response'.code = 200
          /\ ~response'.success]_vars

LazyOps == LimitChecks \cup {"getUserSubscription"}

\* C16: when a user without a subscription record runs a limit check or
\* getUserSubscription and an active zero-price plan of the user's persona
\* exists, the user afterwards holds a record on such a plan with status
\* active, paymentStatus completed, the three counters 0, startDate = now and
\* endDate = now + the plan's duration.
C16_LazyAssignment ==
    [][(/\ ~HasSub(subscription)
        /\ FreePlans(role) # {}
        /\ now' = now
        /\ response'.op \in LazyOps)
       => /\ HasSub(subscription')
          /\ subscription'.planId \in FreePlans(role)
          /\ subscription'.status = "active"
          /\ subscription'.paymentStatus = "completed"
          /\ subscription'.listingsUsed = 0
          /\ subscription'.jobPostsUsed = 0
          /\ subscription'.browseCount = 0
          /\ subscription'.startDate = now
          /\ subscription'.endDate
               = now + plans[subscription'.planId].duration]_vars

\* C17: for a user without a subscription record checkListingLimit and
\* checkJobPostLimit answer allowed = false with remaining = 0.
C17_NoSubscriptionDenied ==
    (/\ ~HasSub(subscription)
     /\ response.op \in {"checkListingLimit", "checkJobPostLimit"})
    => /\ ~response.allowed
       /\ response.remaining = 0

\* C18: a checkBrowseLimit call of a user without a subscription record
\* leaves the stored state as it was, and a second call made in the state it
\* leaves returns the same allowed and the same remaining.
C18_NoSubBrowseDeterministic ==
    [][(/\ ~HasSub(subscription)
        /\ now' = now
        /\ response'.op = "checkBrowseLimit")
       => /\ subscription' = subscription
          /\ checkBrowseLimitResult(subscription', now').allowed
               = response'.allowed
          /\ checkBrowseLimitResult(subscription', now').remaining
               = response'.remaining]_vars

\* the browse check answered a user who has no subscription record
C18_Witness ==
    /\ ~HasSub(subscription)
    /\ response.op = "checkBrowseLimit"
    /\ response.allowed
    /\ response.remaining = FreeBrowseRemaining

\* a record whose endDate lies before n
PastEnd(s, n) == HasSub(s) /\ s.endDate # NoDate /\ n > s.endDate

C20_ReactivateLegality ==
    [][(/\ HasSub(subscription)
        /\ now' = now
        /\ response'.op = "reactivateSubscription")
       => IF subscription.endDate # NoDate /\ now > subscription.endDate
          THEN /\ response'.code = 400
               /\ subscription' = subscription
          ELSE /\ response'.code = 200
               /\ subscription' = [subscription EXCEPT !.status = "active"]]_vars

\* a suspended record inside its period was reactivated
C20_Witness ==
    /\ HasSub(subscription)
    /\ subscription.status = "active"
    /\ subscription.endDate >= now
    /\ subscription.startDate < now
    /\ response.op = "reactivateSubscription"
    /\ response.code = 200

SameButEndAndStatus(a, b) ==
    /\ a.exists = b.exists
    /\ a.planId = b.planId
    /\ a.startDate = b.startDate
    /\ a.listingsUsed = b.listingsUsed
    /\ a.jobPostsUsed = b.jobPostsUsed
    /\ a.browseCount = b.browseCount
    /\ a.listingsLimit = b.listingsLimit
    /\ a.jobPostsLimit = b.jobPostsLimit
    /\ a.browseCountLimit = b.browseCountLimit
    /\ a.lastBrowseReset = b.lastBrowseReset

\* C22 as stated: extendSubscription on an existing record changes endDate
\* and forces status to active; planId, paymentStatus, startDate, the
\* counters, the limits and lastBrowseReset are as before, for every input.
C22_ExtendOnlyEndDate ==
    [][\A e \in EndDates, ps \in PaymentInputs :
         (HasSub(subscription) /\ extendSubscription(e, ps))
         => /\ SameButEndAndStatus(subscription', subscription)
            /\ subscription'.paymentStatus = subscription.paymentStatus
            /\ subscription'.status = "active"]_vars

\* C22 as amended: extendSubscription sets endDate to the supplied
\* newEndDate (keeps it when none is supplied), forces status to active and
\* sets paymentStatus when the admin supplies one; every other field is as
\* before.
C22_ExtendFrame ==
    [][\A e \in EndDates, ps \in PaymentInputs :
         (HasSub(subscription) /\ extendSubscription(e, ps))
         => /\ SameButEndAndStatus(subscription', subscription)
            /\ subscription'.status = "active"
            /\ subscription'.endDate
                 = IF e # NoDate THEN e ELSE subscription.endDate
            /\ subscription'.paymentStatus
                 = IF ps # "" THEN ps ELSE subscription.paymentStatus]_vars

\* an extension carried a payment status and was applied to a used record
C22_Witness ==
    /\ response.op = "extendSubscription"
    /\ response.code = 200
    /\ subscription.paymentStatus = "failed"
    /\ subscription.listingsUsed > 0

\* C25: a resetBrowseCount call that directly follows a successful
\* resetBrowseCount call leaves browseCount = 0 and every field but
\* lastBrowseReset as the first call left it, and lastBrowseReset is the time
\* of the second call, not earlier than the first one's.
C25_ResetIdempotent ==
    [][(/\ response.op = "resetBrowseCount"
        /\ response.code = 200
        /\ now' = now
        /\ response'.op = "resetBrowseCount")
       => /\ subscription.browseCount = 0
          /\ subscription'.browseCount = 0
          /\ subscription' = [subscription EXCEPT !.lastBrowseReset = now]
          /\ subscription'.lastBrowseReset >= subscription.lastBrowseReset]_vars

\* the browse counter was reset at a later time than the period started
C25_Witness ==
    /\ response.op = "resetBrowseCount"
    /\ response.code = 200
    /\ subscription.browseCount = 0
    /\ subscription.lastBrowseReset = now
    /\ subscription.startDate < now

\* C23: directly after a successful cancelSubscription the user has no
\* record; an increment or decrement call then answers success = false and
\* writes nothing, and a limit check or getUserSubscription call then grants
\* a fresh free-plan record with the three counters 0.
C23_CancelRevertsToNone ==
    [][(/\ response.op = "cancelSubscription"
        /\ response.code = 200
        /\ now' = now)
       => /\ ~HasSub(subscription)
          /\ response'.op \in LedgerOps
               => /\ ~response'.success
                  /\ subscription' = subscription
          /\ (response'.op \in LazyOps /\ FreePlans(role) # {})
               => /\ HasSub(subscription')
                  /\ subscription'.planId \in FreePlans(role)
                  /\ subscription'.status = "active"
                  /\ subscription'.listingsUsed = 0
                  /\ subscription'.jobPostsUsed = 0
                  /\ subscription'.browseCount = 0]_vars

\* C24: a checkBrowseLimit call made 30 days or more after lastBrowseReset
\* stores browseCount = 0 and lastBrowseReset = now and, on an active
\* unexpired record, answers with the remaining quota of a counter of 0; a
\* call made earlier leaves browseCount and lastBrowseReset unchanged; after
\* the call fewer than 30 days have passed since lastBrowseReset.
C24_RolloverBeforeQuota ==
    [][(/\ HasSub(subscription)
        /\ subscription.lastBrowseReset # NoDate
        /\ now' = now
        /\ response'.op = "checkBrowseLimit")
       => /\ IF now - subscription.lastBrowseReset >= BillingPeriodDays
             THEN /\ subscription'.browseCount = 0
                  /\ subscription'.lastBrowseReset = now
                  /\ subscription'.status = "active"
                       => response'.remaining
                            = Max(0, PlanOf(subscription').maxBrowsesPerMonth)
             ELSE /\ subscription'.browseCount = subscription.browseCount
                  /\ subscription'.lastBrowseReset
                       = subscription.lastBrowseReset
          /\ now' - subscription'.lastBrowseReset < BillingPeriodDays]_vars

\* a browse check on an active record rolled the billing period over
C24_Witness ==
    /\ response.op = "checkBrowseLimit"
    /\ response.allowed
    /\ HasSub(subscription)
    /\ subscription.status = "active"
    /\ subscription.lastBrowseReset = now
    /\ subscription.startDate + BillingPeriodDays <= now
    /\ response.remaining = PlanOf(subscription).maxBrowsesPerMonth

\* an active, unexpired record on a plan with maxListings = L > 0 whose
\* listingsUsed is u
UsedListings(s, n, u) ==
    /\ HasSub(s)
    /\ s.status = "active"
    /\ ~PastEnd(s, n)
    /\ PlanOf(s).maxListings > 0
    /\ s.listingsUsed = u

\* C26: with listingsUsed = L on an active, unexpired record of a plan with
\* maxListings = L > 0, checkListingLimit answers allowed = false and
\* remaining = 0; after one decrementListingCount a checkListingLimit call
\* answers remaining = 1 and allowed = true.
C26_DecrementFreesOne ==
    [][/\ (/\ UsedListings(subscription, now,
                           PlanOf(subscription).maxListings)
           /\ now' = now
           /\ response'.op = "checkListingLimit")
          => /\ ~response'.allowed
             /\ response'.remaining = 0
       /\ (/\ UsedListings(subscription, now,
                           PlanOf(subscription).maxListings)
           /\ now' = now
           /\ response'.op = "decrementListingCount")
          => /\ checkListingLimitResult(subscription', now').allowed
             /\ checkListingLimitResult(subscription', now').remaining = 1
       /\ (/\ UsedListings(subscription, now,
                           PlanOf(subscription).maxListings - 1)
           /\ response.op = "decrementListingCount"
           /\ now' = now
           /\ response'.op = "checkListingLimit")
          => /\ response'.allowed
             /\ response'.remaining = 1]_vars

\* a decrement took an active record on a plan with maxListings = 2 from 2
\* used listings to 1
C26_Witness ==
    /\ response.op = "decrementListingCount"
    /\ response.success
    /\ UsedListings(subscription, now, 1)
    /\ PlanOf(subscription).maxListings = 2

\* C27: after every createPlan and updatePlan call each plan of the catalog
\* has maxListings, maxJobPosts and maxBrowsesPerMonth >= 0 or equal to -1,
\* and a call that sets one of the three fields to -1 is accepted.
C27_FeatureDomain ==
    [][/\ \A id \in DOMAIN plans', f \in PlanFields : plans'[id][f] >= -1
       /\ \A id \in DOMAIN plans, f \in PlanFields :
            updatePlan(id, f, -1) => response'.code = 200
       /\ \A id \in NewPlanIds, p \in NewPlans :
            (/\ createPlan(id, p)
             /\ id \notin DOMAIN plans
             /\ \A f \in PlanFields : p[f] >= -1)
            => response'.code = 201]_vars

\* the values user.role can hold, with the vendor persona the checks name
AllRoles == {"guest", "institute", "admin", "teacher", "vendor"}

RequiredRole(op) ==
    IF op = "checkJobApplicationAccess" THEN "teacher"
    ELSE IF op = "checkProductListingAccess" THEN "vendor"
    ELSE "institute"

\* C28: a persona check allows only the role it is for: for every role,
\* subscription status, counter and limit, checkVehicleListingAccess and
\* checkJobPostAccess deny all but institutes, checkProductListingAccess all
\* but vendors and checkJobApplicationAccess all but teachers.
C28_PersonaGating ==
    /\ (response.op \in PersonaChecks /\ response.allowed)
         => role = RequiredRole(response.op)
    /\ \A r \in AllRoles, op \in PersonaChecks :
         PersonaResult(op, r, subscription).allowed => r = RequiredRole(op)

\* a teacher with an active subscription and free quota was denied the
\* vehicle-listing permission
C28_Witness ==
    /\ role = "teacher"
    /\ response.op = "checkVehicleListingAccess"
    /\ ~response.allowed
    /\ HasSub(subscription)
    /\ subscription.status = "active"
    /\ subscription.listingsUsed < subscription.listingsLimit

\* C29: for every plan of the catalog, the delay a viewer without a
\* subscription gets from checkListingVisibility, from the job queries and
\* from the teacher search is at least the delay a viewer with an active
\* subscription to that plan gets.
C29_DefaultDelayMostRestrictive ==
    \A id \in PlanIds :
      /\ ListingDelayHours(NoSub) >= ListingDelayHours(FreeRecord(id, now))
      /\ DefaultDataDelayDays >= plans[id].dataDelayDays
      /\ DefaultTeacherDelayDays >= plans[id].teacherDataDelayDays
      /\ getDataDelayDays("anonymous") >= plans[id].dataDelayDays
      /\ getTeacherDataDelayDays("anonymous")
           >= plans[id].teacherDataDelayDays

\* C30: every visibility decision made for an admin or for the creator of
\* the item reports the item visible, whatever its age.
C30_AdminOwnerSeeAtOnce ==
    [][\A v \in Viewers, c \in CreatedAts, o \in BOOLEAN :
         (/\ v = "admin" \/ o
          /\ \/ checkListingVisibility(v, c, o)
             \/ getJobById(v, c, o)
             \/ getAllJobs(v, c, o))
         => response'.allowed]_vars

\* the operations behind authorize('admin') that may activate a record
AdminActivators ==
    {"reactivateSubscription", "extendSubscription", "assignSubscription",
     "changePlan", "updateSubscriptionRequest"}

\* C31: a step that takes the record from suspended to active is the step
\* of an admin operation (reactivate, extend, assign, change plan, request
\* approval); no call open to the owning user does it.
C31_SuspendedLeftOnlyByAdmin ==
    [][(/\ HasSub(subscription)
        /\ subscription.status = "suspended"
        /\ HasSub(subscription')
        /\ subscription'.status = "active")
       => response'.op \in AdminActivators]_vars

\* C32: whenever a request is stored as approved, the requester's record
\* afterwards references the requested plan and carries that plan's three
\* limits, also when the requester had no record when the request was made.
C32_ApprovalHasEffect ==
    [][\A i \in 1..Len(requests) :
         (/\ Len(requests') = Len(requests)
          /\ requests[i].status # "approved"
          /\ requests'[i].status = "approved")
         => LET id == requests[i].requestedPlanId IN
            /\ ~NoPlanRef(subscription')
            /\ subscription'.planId = id
            /\ subscription'.listingsLimit = plans[id].maxListings
            /\ subscription'.jobPostsLimit = plans[id].maxJobPosts
            /\ subscription'.browseCountLimit = plans[id].maxBrowsesPerMonth]_vars

\* the decision calls that wrote the plan of request i into the record
Appliers(i) ==
    {p \in Procs : /\ inflight[p].pc \in {"userSaved", "done"}
                   /\ inflight[p].req = i
                   /\ inflight[p].applied}

Quiescent == \A p \in Procs : inflight[p].pc \in {"idle", "done"}

\* C33: for every request, at most one decision call applies its plan to the
\* requester's record, and once no decision call is in flight the plan was
\* applied if and only if the request is stored as approved.
C33_DecisionAtomic ==
    \A i \in 1..Len(requests) :
      /\ Cardinality(Appliers(i)) <= 1
      /\ Quiescent => (Appliers(i) # {} <=> requests[i].status = "approved")

\* C34: for a non-admin user on a plan with a finite maxJobPosts (resp.
\* maxListings), the jobs (resp. vehicles) created in the period and the
\* stored jobPostsUsed (resp. listingsUsed) never exceed that limit,
\* whatever the interleaving of the creation calls.
C34_QuotaNeverExceeded ==
    (role # "admin" /\ ~NoPlanRef(subscription)) =>
      /\ PlanOf(subscription).maxJobPosts # -1 =>
           /\ jobs <= PlanOf(subscription).maxJobPosts
           /\ subscription.jobPostsUsed <= PlanOf(subscription).maxJobPosts
      /\ PlanOf(subscription).maxListings # -1 =>
           /\ vehicles <= PlanOf(subscription).maxListings
           /\ subscription.listingsUsed <= PlanOf(subscription).maxListings

\* C35: no stored record has status expired together with an endDate that
\* is still in the future, also when a limit check interleaves with an
\* extension or continuation that moves endDate forward.
C35_NoExpiredWithFutureEnd ==
    ~(/\ HasSub(subscription)
      /\ subscription.status = "expired"
      /\ subscription.endDate # NoDate
      /\ subscription.endDate > now)

\* C36: for an institute with an active, unexpired subscription the three
\* listing-quota decisions give the same answer: checkListingLimit,
\* checkVehicleListingAccess and the inline limit test of createVehicle
\* allow together or deny together.
C36_ListingDecisionsAgree ==
    (/\ role = "institute"
     /\ ~NoPlanRef(subscription)
     /\ subscription.status = "active"
     /\ ~Expired(subscription, now))
    => /\ checkListingLimitResult(subscription, now).allowed
            = checkVehicleListingAccess(role, subscription).allowed
       /\ checkListingLimitResult(subscription, now).allowed
            = ~ListingLimitReached(subscription)

\* C37: after every continueOwnSubscription or extendSubscription call on
\* an existing record, whatever the request body, the record has a defined
\* endDate; and a limit check made on an active record after that endDate
\* stores status expired and denies.
C37_RenewalKeepsEndDate ==
    [][/\ \A e \in EndDates :
            ((continueOwnSubscription(e) \/ extendSubscription(e, ""))
              /\ HasSub(subscription))
            => subscription'.endDate # NoDate
       /\ ((checkBrowseLimit \/ checkListingLimit \/ checkJobPostLimit)
            /\ ~NoPlanRef(subscription)
            /\ subscription.status = "active"
            /\ subscription.endDate # NoDate
            /\ now > subscription.endDate)
           => (subscription'.status = "expired" /\ ~response'.allowed)]_vars

\* C38: an accepted application only ever changes to rejected; a status
\* outside the six is refused with the application unchanged; and every
\* other move between the six statuses asked through the status field alone
\* is carried out.
C38_AcceptedOnlyToRejected ==
    [][/\ (application.status = "accepted"
            /\ application'.status # "accepted")
           => application'.status = "rejected"
       /\ \A st \in StatusInputs, iv \in BOOLEAN :
            updateApplicationStatus(st, iv) =>
              /\ (st # "" /\ st \notin allStatuses)
                   => (application' = application /\ response'.code = 400)
              /\ (/\ st \in allStatuses
                  /\ ~iv
                  /\ ~(application.status = "accepted"
                        /\ st \notin {"accepted", "rejected"}))
                   => (application'.status = st /\ response'.code = 200)]_vars

\* an accepted application on which a status change was just refused
C38_Witness ==
    /\ application.status = "accepted"
    /\ response.op = "updateApplicationStatus"
    /\ response.code = 400
    /\ Len(application.statusHistory) >= 2

====
